---- MODULE Spec2Model ----
(***************************************************************************)
(* cluster-fastcopy: the /copy handler of the bridge service.              *)
(*                                                                         *)
(* The model follows the streaming revision of the server (handleCopy,     *)
(* sendToUpload, GetHdfsClient).  One /copy request is served by           *)
(*   - the handler goroutine (pc),                                         *)
(*   - the failure-collecting goroutine started by the handler, which      *)
(*     receives from the unbuffered channel copyFailuresCh and appends to  *)
(*     the slice copyFailures (held is its local variable `failure`),      *)
(*   - one sendToUpload goroutine per non-directory entry (task[i]).       *)
(* The storage client and the remote /upload endpoint are external: their  *)
(* results (listing, open error, request error, network error, status)     *)
(* are drawn nondeterministically.                                         *)
(*                                                                         *)
(* The slice copyFailures is written by the collector and read by the      *)
(* handler without synchronisation; the handler's three reads (the range   *)
(* loop, len(copyFailures), the CopyFailures field) are separate steps so  *)
(* that every order of the collector's append and these reads occurs.      *)
(***************************************************************************)
EXTENDS Naturals, Integers, Sequences, FiniteSets, TLC

\* Largest number of entries a directory listing has in the model.
MaxEntries == 3

Entries == 1..MaxEntries

\* A listing is a sequence of entries; an entry is TRUE when it is a
\* directory.  The entry at position i is named i, its path is i.
Listings == UNION {[1..n -> BOOLEAN] : n \in 0..MaxEntries}

RECURSIVE Pow2(_)
Pow2(n) == IF n = 0 THEN 1 ELSE 2 * Pow2(n - 1)

\* fileInfo.Size(): distinct powers of two, so that a sum of sizes
\* identifies the set of files it was taken over.
Size(i) == Pow2(i - 1)

VARIABLES
    pc,                \* position of the handler goroutine of handleCopy
    req,               \* which query parameters of the request are non-empty
    HdfsClient,        \* the global client: "nil" or "client"
    proc,              \* "running", "fatal" (log.Fatalf) or "panicked"
    fileInfos,         \* result of client.ReadDir(from)
    listed,            \* client.ReadDir: "no" (not called), "ok" or "err"
    idx,               \* position of the range loop over fileInfos
    totalBytesWritten, \* the handler's running total
    copyFailures,      \* the slice the collector appends to
    held,              \* collector: received failure not yet appended
    wg,                \* counter of the sync.WaitGroup
    task,              \* position of sendToUpload for each entry
    reader,            \* source read stream of each entry
    inflight,          \* entries with an httpClient.Do call in progress
    sinkCalls,         \* per entry, the outbound requests httpClient.Do sent
    subtracted,        \* copyFailures as read by the subtraction loop
    resp,              \* the CopyResponse being built
    response,          \* what is written to the http.ResponseWriter
    upPc,              \* position of the handler goroutine of handleUpload
    upReq,             \* query parameters and body of the /upload request
    upOld,             \* the file at the destination path when it arrived
    hdfsDirs,          \* destination storage: the directories that exist
    hdfsFiles,         \* destination storage: the file at each path
    written,           \* WriteHDFS: bytes copied so far by io.Copy
    upResponse,        \* what handleUpload wrote to its ResponseWriter
    run,               \* 1: the /copy request, 2: the same request again
    first,             \* what the first run returned and was given
    sinkFiles,         \* per entry, the file the remote /upload left for it
    getter,            \* concurrent callers of GetHdfsClient: position,
                       \* the local `client`, the value returned
    constructed,       \* how often the client constructor has run
    now,               \* the clock time.Now() and time.Since() read
    start,             \* handleCopy: the local `start`
    listAt,            \* the time at which client.ReadDir was called
    copies             \* two /copy requests served at the same time: for
                       \* each the local variables of its handleCopy call

vars == <<pc, req, HdfsClient, proc, fileInfos, listed, idx,
          totalBytesWritten, copyFailures, held, wg, task, reader,
          inflight, sinkCalls, subtracted, resp, response,
          upPc, upReq, upOld, hdfsDirs, hdfsFiles, written, upResponse,
          run, first, sinkFiles, getter, constructed, now, start, listAt,
          copies>>

\* The state of the /upload side and of the destination storage.
uploadVars == <<upPc, upReq, upOld, hdfsDirs, hdfsFiles, written,
                upResponse>>

\* The state that belongs to one /copy request.
copyVars == <<pc, req, fileInfos, listed, idx, totalBytesWritten,
              copyFailures, held, wg, task, reader, inflight, sinkCalls,
              subtracted, resp, response>>

\* The state that relates a /copy request to its repetition.
rerunVars == <<run, first, sinkFiles>>

\* The /copy requests that are served at the same time.
TwoRequests == {1, 2}

\* Largest number of files in the listing of each of them.
MaxFilesEach == 1

FilesEach == 1..MaxFilesEach

\* fileInfo.Size() of file i of request r: all different powers of two.
SizeOf(r, i) == Pow2((r - 1) * MaxFilesEach + i - 1)

NoTask == [pc |-> "none", wg |-> 0, ch |-> 0]

\* The clock and what is recorded of it.
timeVars == <<now, start, listAt>>

\* Longest time, in ticks of the clock, that a call which waits for the
\* storage or for the tasks takes.
MaxTick == 1

\* The state of the requests that call GetHdfsClient at the same time.
clientVars == <<getter, constructed>>

\* Number of requests that call GetHdfsClient at the same time.
MaxRequests == 3

Requests == 1..MaxRequests

\* Longest request body of an /upload in the model.
MaxBody == 2

Bytes == {0, 1}
Bodies == UNION {[1..n -> Bytes] : n \in 0..MaxBody}

\* Values of the query parameters `to` and `fileName`; "" is a missing one.
Dirs == {"", "d"}
Names == {"", "f", "g"}

Join_NameOnly(to, fileName) == <<"", fileName>>

\* filepath.Join(to, fileName): the file named fileName in directory to.
Join(to, fileName) == <<to, fileName>>

Paths == Dirs \X Names

NoFile == [exists |-> FALSE, data |-> <<>>]
NoUpload == [to |-> "", fileName |-> "", body |-> <<>>]
NoUploadResponse == [status |-> 0, path |-> <<"", "">>, written |-> 0]

NoResponse == [status |-> 0, body |-> "none"]
NoFirst == [resp |-> <<>>, status |-> 0, fileInfos |-> <<>>,
            rejected |-> {}, sinkFiles |-> <<>>]
NoSummary == [Written |-> 0, FilesRequested |-> 0, FilesCopied |-> 0,
              CopyFailures |-> <<>>, Throughput |-> <<0, 0>>,
              ElapsedSecs |-> 0]

\* CopyFailure{args.Path, reason, size}
CopyFailure(i, reason, size) == [path |-> i, reason |-> reason, size |-> size]

\* By how much a source file may have grown between the listing and its
\* open: more than all listed sizes together.
Grown == Pow2(MaxEntries)

\* Number of entries, from the head of the listing, that may have changed
\* between the listing and their open.
MaxChanged == 1

\* reader.Stat().Size(): the size the storage reported when the file was
\* opened, which is after the listing: the listed size, or another one
\* when the file changed in between.  A task reads it at most once, in
\* the failure it sends, so the value is drawn there.  In the repetition
\* of a request the source is unchanged.
StatSizes(i) ==
    IF run = 2 \/ i > MaxChanged THEN {Size(i)}
    ELSE {Size(i), Size(i) + Grown}

SumSizes_FirstOnly(fs) == IF fs = <<>> THEN 0 ELSE fs[1].size

\* The sum of f.Size over a list of failures.
RECURSIVE SumSizes(_)
SumSizes(fs) ==
    IF fs = <<>> THEN 0 ELSE fs[1].size + SumSizes(Tail(fs))

\* len(copyFailuresCh): the channel is made without a buffer, so its
\* length is 0 at every moment.
LenCopyFailuresCh == 0

Init ==
    /\ pc = "idle"
    /\ req = [from |-> FALSE, to |-> FALSE, targetURL |-> FALSE]
    /\ HdfsClient = "nil"
    /\ proc = "running"
    /\ fileInfos = <<>>
    /\ listed = "no"
    /\ idx = 1
    /\ totalBytesWritten = 0
    /\ copyFailures = <<>>
    /\ held = <<>>
    /\ wg = 0
    /\ task = [i \in Entries |-> "none"]
    /\ reader = [i \in Entries |-> "none"]
    /\ inflight = {}
    /\ sinkCalls = [i \in Entries |-> <<>>]
    /\ subtracted = <<>>
    /\ resp = NoSummary
    /\ response = NoResponse
    /\ upPc = "idle"
    /\ upReq = NoUpload
    /\ upOld = NoFile
    /\ hdfsDirs = {}
    /\ hdfsFiles = [p \in Paths |-> NoFile]
    /\ written = 0
    /\ upResponse = NoUploadResponse
    /\ run = 1
    /\ first = NoFirst
    /\ sinkFiles = [i \in Entries |-> "absent"]
    /\ getter = [g \in Requests |->
                   [pc |-> "start", client |-> "nil", ret |-> "nil"]]
    /\ constructed = 0
    /\ now = 0
    /\ start = 0
    /\ listAt = 0
    /\ copies = [r \in TwoRequests |->
                   [pc |-> "idle", n |-> 0, idx |-> 1, total |-> 0,
                    failures |-> <<>>, held |-> <<>>, wg |-> 0,
                    task |-> [i \in FilesEach |-> NoTask],
                    subtracted |-> <<>>, resp |-> NoSummary]]

----------------------------------------------------------------------------
(* handleCopy *)

ParamsMissing_OnlyFrom(r) == ~r.from

\* if from == "" || to == ""
ParamsMissing(r) == ~r.from \/ ~r.to

\* Query parameters are read and validated; a missing one answers 400.
Validate ==
    /\ proc = "running"
    /\ pc = "idle"
    /\ \E f \in BOOLEAN, t \in BOOLEAN, u \in BOOLEAN :
         LET r == [from |-> f, to |-> t, targetURL |-> u] IN
         /\ run = 2 => r = req
         /\ req' = r
         /\ start' = now
         /\ IF ParamsMissing(r)
              THEN /\ response' = [status |-> 400, body |-> "error"]
                   /\ pc' = "done"
              ELSE /\ response' = response
                   /\ pc' = "getclient"
    /\ UNCHANGED uploadVars
    /\ UNCHANGED rerunVars
    /\ UNCHANGED clientVars
    /\ UNCHANGED copies
    /\ UNCHANGED <<now, listAt>>
    /\ UNCHANGED <<HdfsClient, proc, fileInfos, listed, idx,
                   totalBytesWritten, copyFailures, held, wg, task, reader,
                   inflight, sinkCalls, subtracted, resp>>

\* client := GetHdfsClient(): the global is created on first use; a
\* constructor error ends the process (log.Fatalf).
GetHdfsClient ==
    /\ proc = "running"
    /\ pc = "getclient"
    /\ IF HdfsClient = "nil"
         THEN \E ok \in BOOLEAN :
                IF ok THEN /\ HdfsClient' = "client"
                           /\ proc' = proc
                           /\ pc' = "list"
                      ELSE /\ HdfsClient' = HdfsClient
                           /\ proc' = "fatal"
                           /\ pc' = pc
         ELSE /\ pc' = "list"
              /\ UNCHANGED <<HdfsClient, proc>>
    /\ UNCHANGED uploadVars
    /\ UNCHANGED rerunVars
    /\ UNCHANGED clientVars
    /\ UNCHANGED copies
    /\ UNCHANGED timeVars
    /\ UNCHANGED <<req, fileInfos, listed, idx, totalBytesWritten,
                   copyFailures, held, wg, task, reader, inflight,
                   sinkCalls, subtracted, resp, response>>

ReadDir_IgnoreErr ==
    /\ proc = "running"
    /\ pc = "list"
    /\ \E l \in Listings, r \in {"ok", "err"} :
         /\ listed' = r
         /\ fileInfos' = l
         /\ pc' = "loop"
    /\ listAt' = now
    /\ \E d \in 1..MaxTick : now' = now + d
    /\ start' = start
    /\ UNCHANGED uploadVars
    /\ UNCHANGED rerunVars
    /\ UNCHANGED clientVars
    /\ UNCHANGED copies
    /\ UNCHANGED <<req, HdfsClient, proc, idx, totalBytesWritten,
                   copyFailures, held, wg, task, reader, inflight,
                   sinkCalls, subtracted, resp, response>>

\* fileInfos, err := client.ReadDir(from); an error answers 500 with the
\* error text and returns.  On success the collector goroutine is started
\* (it waits to receive: held is empty).
ReadDir ==
    /\ proc = "running"
    /\ pc = "list"
    /\ \/ /\ run = 1
          /\ listed' = "err"
          /\ response' = [status |-> 500, body |-> "error"]
          /\ pc' = "done"
          /\ fileInfos' = fileInfos
       \/ \E l \in Listings :
            /\ run = 2 => l = first.fileInfos
            /\ listed' = "ok"
            /\ fileInfos' = l
            /\ pc' = "loop"
            /\ response' = response
    /\ listAt' = now
    /\ \E d \in 1..MaxTick : now' = now + d
    /\ start' = start
    /\ UNCHANGED uploadVars
    /\ UNCHANGED rerunVars
    /\ UNCHANGED clientVars
    /\ UNCHANGED copies
    /\ UNCHANGED <<req, HdfsClient, proc, idx, totalBytesWritten,
                   copyFailures, held, wg, task, reader, inflight,
                   sinkCalls, subtracted, resp>>

\* The deferred reader.Close() calls run when handleCopy returns.
CloseReaders(rd) ==
    [i \in Entries |-> IF rd[i] = "open" THEN "closed" ELSE rd[i]]

\* One iteration of `for _, fileInfo := range fileInfos`: a directory is
\* skipped; otherwise the size is added to the total and the file is
\* opened.  After a successful open the task goroutine is started; after
\* a failed one the handler goes on to send the failure on the channel.
RangeStep ==
    /\ proc = "running"
    /\ pc = "loop"
    /\ idx <= Len(fileInfos)
    /\ IF fileInfos[idx]
         THEN /\ idx' = idx + 1
              /\ UNCHANGED <<pc, totalBytesWritten, wg, task, reader>>
         ELSE /\ totalBytesWritten' = totalBytesWritten + Size(idx)
              /\ \E opened \in BOOLEAN :
                   /\ run = 2 => opened
                   /\ IF opened
                        THEN /\ reader' = [reader EXCEPT ![idx] = "open"]
                             /\ wg' = wg + 1
                             /\ task' = [task EXCEPT ![idx] = "newreq"]
                             /\ idx' = idx + 1
                             /\ pc' = pc
                        ELSE /\ pc' = "sendopen"
                             /\ UNCHANGED <<idx, wg, task, reader>>
    /\ UNCHANGED uploadVars
    /\ UNCHANGED rerunVars
    /\ UNCHANGED clientVars
    /\ UNCHANGED copies
    /\ UNCHANGED timeVars
    /\ UNCHANGED <<req, HdfsClient, proc, fileInfos, listed,
                   copyFailures, held, inflight, sinkCalls, subtracted,
                   resp, response>>

\* The range loop is over: the handler reaches wg.Wait().
RangeEnd ==
    /\ proc = "running"
    /\ pc = "loop"
    /\ idx > Len(fileInfos)
    /\ pc' = "wait"
    /\ UNCHANGED uploadVars
    /\ UNCHANGED rerunVars
    /\ UNCHANGED clientVars
    /\ UNCHANGED copies
    /\ UNCHANGED timeVars
    /\ UNCHANGED <<req, HdfsClient, proc, fileInfos, listed, idx,
                   totalBytesWritten, copyFailures, held, wg, task, reader,
                   inflight, sinkCalls, subtracted, resp, response>>

\* copyFailuresCh <- CopyFailure{args.Path, err.Error(), fileInfo.Size()}
\* completes when the collector receives; then `return`: the handler ends
\* without writing a response (net/http answers 200 with an empty body)
\* and the deferred closes of the readers opened so far run.
SendOpenFailure ==
    /\ proc = "running"
    /\ pc = "sendopen"
    /\ held = <<>>
    /\ held' = <<CopyFailure(idx, "open", Size(idx))>>
    /\ reader' = CloseReaders(reader)
    /\ response' = [status |-> 200, body |-> "empty"]
    /\ pc' = "done"
    /\ UNCHANGED uploadVars
    /\ UNCHANGED rerunVars
    /\ UNCHANGED clientVars
    /\ UNCHANGED copies
    /\ UNCHANGED timeVars
    /\ UNCHANGED <<req, HdfsClient, proc, fileInfos, listed, idx,
                   totalBytesWritten, copyFailures, wg, task, inflight,
                   sinkCalls, subtracted, resp>>

\* wg.Wait() returns when the counter is zero; the handler has waited
\* for the tasks, for no time at all when none was running.
Wait ==
    /\ proc = "running"
    /\ pc = "wait"
    /\ wg = 0
    /\ pc' = "subtract"
    /\ \E d \in 0..MaxTick : now' = now + d
    /\ UNCHANGED uploadVars
    /\ UNCHANGED rerunVars
    /\ UNCHANGED clientVars
    /\ UNCHANGED copies
    /\ UNCHANGED <<start, listAt>>
    /\ UNCHANGED <<req, HdfsClient, proc, fileInfos, listed, idx,
                   totalBytesWritten, copyFailures, held, wg, task, reader,
                   inflight, sinkCalls, subtracted, resp, response>>

\* for _, f := range copyFailures { totalBytesWritten -= f.Size }
\* The slice is read once, when the range statement is evaluated.
Subtract ==
    /\ proc = "running"
    /\ pc = "subtract"
    /\ subtracted' = copyFailures
    /\ totalBytesWritten' = totalBytesWritten - SumSizes(copyFailures)
    /\ pc' = "build"
    /\ UNCHANGED uploadVars
    /\ UNCHANGED rerunVars
    /\ UNCHANGED clientVars
    /\ UNCHANGED copies
    /\ UNCHANGED timeVars
    /\ UNCHANGED <<req, HdfsClient, proc, fileInfos, listed, idx,
                   copyFailures, held, wg, task, reader, inflight,
                   sinkCalls, resp, response>>

\* FilesRequested: int64(len(fileInfos))
FilesRequested(infos) == Len(infos)

FilesCopied_CountFailures(infos, failures) == Len(failures)

\* FilesCopied: int64(len(fileInfos) - len(copyFailures))
FilesCopied(infos, failures) == Len(infos) - Len(failures)

Throughput_Bytes(bytes, elapsed) == <<bytes, elapsed * 1000000>>

\* (float64(totalBytesWritten) * 8 / elapsed) / 1000000, as the fraction
\* of its numerator and its denominator.
Throughput(bytes, elapsed) == <<bytes * 8, elapsed * 1000000>>

\* elapsed := time.Since(start).Seconds()
Elapsed == now - start

\* The fields Written, FilesRequested, FilesCopied, Throughput and
\* ElapsedSecs of the CopyResponse literal; the clock and
\* len(copyFailures) are read here.
BuildCounts ==
    /\ proc = "running"
    /\ pc = "build"
    /\ resp' = [resp EXCEPT !.Written = totalBytesWritten,
                            !.FilesRequested = FilesRequested(fileInfos),
                            !.FilesCopied =
                                FilesCopied(fileInfos, copyFailures),
                            !.Throughput =
                                Throughput(totalBytesWritten, Elapsed),
                            !.ElapsedSecs = Elapsed]
    /\ pc' = "buildlist"
    /\ UNCHANGED uploadVars
    /\ UNCHANGED rerunVars
    /\ UNCHANGED clientVars
    /\ UNCHANGED copies
    /\ UNCHANGED timeVars
    /\ UNCHANGED <<req, HdfsClient, proc, fileInfos, listed, idx,
                   totalBytesWritten, copyFailures, held, wg, task, reader,
                   inflight, sinkCalls, subtracted, response>>

\* The field CopyFailures of the literal: the slice is read again.
BuildFailures ==
    /\ proc = "running"
    /\ pc = "buildlist"
    /\ resp' = [resp EXCEPT !.CopyFailures = copyFailures]
    /\ pc' = "respond"
    /\ UNCHANGED uploadVars
    /\ UNCHANGED rerunVars
    /\ UNCHANGED clientVars
    /\ UNCHANGED copies
    /\ UNCHANGED timeVars
    /\ UNCHANGED <<req, HdfsClient, proc, fileInfos, listed, idx,
                   totalBytesWritten, copyFailures, held, wg, task, reader,
                   inflight, sinkCalls, subtracted, response>>

\* if len(copyFailuresCh) > 0 { 500 } else { 200 }, both with the summary
\* as body.
ResponseStatus == IF LenCopyFailuresCh > 0 THEN 500 ELSE 200

\* The summary is written and the handler returns; the deferred closes of
\* the readers run.
Respond ==
    /\ proc = "running"
    /\ pc = "respond"
    /\ response' = [status |-> ResponseStatus, body |-> "summary"]
    /\ reader' = CloseReaders(reader)
    /\ pc' = "done"
    /\ UNCHANGED uploadVars
    /\ UNCHANGED rerunVars
    /\ UNCHANGED clientVars
    /\ UNCHANGED copies
    /\ UNCHANGED timeVars
    /\ UNCHANGED <<req, HdfsClient, proc, fileInfos, listed, idx,
                   totalBytesWritten, copyFailures, held, wg, task,
                   inflight, sinkCalls, subtracted, resp>>

----------------------------------------------------------------------------
(* the collector goroutine: for failure := range copyFailuresCh *)

\* copyFailures = append(copyFailures, failure); then the collector is
\* ready to receive again.
CollectorAppend ==
    /\ proc = "running"
    /\ held # <<>>
    /\ copyFailures' = Append(copyFailures, held[1])
    /\ held' = <<>>
    /\ UNCHANGED uploadVars
    /\ UNCHANGED rerunVars
    /\ UNCHANGED clientVars
    /\ UNCHANGED copies
    /\ UNCHANGED timeVars
    /\ UNCHANGED <<pc, req, HdfsClient, proc, fileInfos, listed, idx,
                   totalBytesWritten, wg, task, reader, inflight, sinkCalls,
                   subtracted, resp, response>>

\* Where the collector goroutine is: it is started after a successful
\* listing and then either blocks receiving from copyFailuresCh or holds
\* a failure it is about to append.  Its range loop would end when the
\* channel is closed; handleCopy has no close(copyFailuresCh).
collector ==
    IF listed # "ok" THEN "none"
    ELSE IF held = <<>> THEN "receive" ELSE "append"

----------------------------------------------------------------------------
(* sendToUpload, one goroutine per opened file *)

\* req, err := http.NewRequest(...): on error the task goes on to send a
\* failure on the channel.
NewRequest(i) ==
    /\ proc = "running"
    /\ task[i] = "newreq"
    /\ \E ok \in BOOLEAN :
         /\ run = 2 => ok
         /\ task' = [task EXCEPT ![i] = IF ok THEN "do" ELSE "sendreqerr"]
    /\ UNCHANGED uploadVars
    /\ UNCHANGED rerunVars
    /\ UNCHANGED clientVars
    /\ UNCHANGED copies
    /\ UNCHANGED timeVars
    /\ UNCHANGED <<pc, req, HdfsClient, proc, fileInfos, listed, idx,
                   totalBytesWritten, copyFailures, held, wg, reader,
                   inflight, sinkCalls, subtracted, resp, response>>

\* The send of the request error completes; the code does not return, so
\* req.Header.Set is reached with req == nil.
SendRequestError(i) ==
    /\ proc = "running"
    /\ task[i] = "sendreqerr"
    /\ held = <<>>
    /\ \E size \in StatSizes(i) :
         held' = <<CopyFailure(i, "request", size)>>
    /\ task' = [task EXCEPT ![i] = "nilderef"]
    /\ UNCHANGED uploadVars
    /\ UNCHANGED rerunVars
    /\ UNCHANGED clientVars
    /\ UNCHANGED copies
    /\ UNCHANGED timeVars
    /\ UNCHANGED <<pc, req, HdfsClient, proc, fileInfos, listed, idx,
                   totalBytesWritten, copyFailures, wg, reader, inflight,
                   sinkCalls, subtracted, resp, response>>

UploadUrl_LastEntry(i) ==
    [fileName |-> Len(fileInfos), to |-> req.to, targetURL |-> req.targetURL]

\* uploadUrl := targetURL + "?fileName=" + args.File + "&to=" + args.To
UploadUrl(i) ==
    [fileName |-> i, to |-> req.to, targetURL |-> req.targetURL]

\* resp, err := httpClient.Do(req): the outbound call is issued.
DoStart(i) ==
    /\ proc = "running"
    /\ task[i] = "do"
    /\ inflight' = inflight \cup {i}
    /\ sinkCalls' = [sinkCalls EXCEPT ![i] = Append(@, UploadUrl(i))]
    /\ task' = [task EXCEPT ![i] = "inflight"]
    /\ UNCHANGED uploadVars
    /\ UNCHANGED rerunVars
    /\ UNCHANGED clientVars
    /\ UNCHANGED copies
    /\ UNCHANGED timeVars
    /\ UNCHANGED <<pc, req, HdfsClient, proc, fileInfos, listed, idx,
                   totalBytesWritten, copyFailures, held, wg, reader,
                   subtracted, resp, response>>

\* What the remote /upload (WriteHDFS) leaves at the destination path of
\* entry i: the whole file ("full") when it answers 200; when it fails,
\* no complete file ("failed": Create failed after Remove, or io.Copy
\* stopped part way).  After a network error either.  The sink of the
\* second run behaves as it did in the first.
SinkResults(i, outcome) ==
    IF run = 2 THEN {first.sinkFiles[i]}
    ELSE CASE outcome = "ok" -> {"full"}
           [] outcome = "status" -> {"failed"}
           [] outcome = "neterr" -> {"failed", "full"}

\* The answers the sink may give for entry i.
SinkOutcomes(i) ==
    IF run = 2 THEN {IF i \in first.rejected THEN "status" ELSE "ok"}
    ELSE {"ok", "status", "neterr"}

\* httpClient.Do returns: with status 200 the task logs and returns
\* (deferred wg.Done); with another status or with an error it goes on to
\* send a failure.
DoReturn(i) ==
    /\ proc = "running"
    /\ task[i] = "inflight"
    /\ inflight' = inflight \ {i}
    /\ \E outcome \in SinkOutcomes(i) :
         /\ \E f \in SinkResults(i, outcome) :
              sinkFiles' = [sinkFiles EXCEPT ![i] = f]
         /\ CASE outcome = "ok" ->
                   /\ task' = [task EXCEPT ![i] = "done"]
                   /\ wg' = wg - 1
              [] outcome = "status" ->
                   /\ task' = [task EXCEPT ![i] = "sendstatus"]
                   /\ wg' = wg
              [] outcome = "neterr" ->
                   /\ task' = [task EXCEPT ![i] = "sendneterr"]
                   /\ wg' = wg
    /\ UNCHANGED uploadVars
    /\ UNCHANGED <<run, first>>
    /\ UNCHANGED clientVars
    /\ UNCHANGED copies
    /\ UNCHANGED timeVars
    /\ UNCHANGED <<pc, req, HdfsClient, proc, fileInfos, listed, idx,
                   totalBytesWritten, copyFailures, held, reader, sinkCalls,
                   subtracted, resp, response>>

\* The send of the network error completes; the code does not return, so
\* `defer resp.Body.Close()` is reached with resp == nil.
SendNetworkError(i) ==
    /\ proc = "running"
    /\ task[i] = "sendneterr"
    /\ held = <<>>
    /\ \E size \in StatSizes(i) :
         held' = <<CopyFailure(i, "network", size)>>
    /\ task' = [task EXCEPT ![i] = "nilderef"]
    /\ UNCHANGED uploadVars
    /\ UNCHANGED rerunVars
    /\ UNCHANGED clientVars
    /\ UNCHANGED copies
    /\ UNCHANGED timeVars
    /\ UNCHANGED <<pc, req, HdfsClient, proc, fileInfos, listed, idx,
                   totalBytesWritten, copyFailures, wg, reader, inflight,
                   sinkCalls, subtracted, resp, response>>

\* The send of the non-OK status completes, the task logs and returns
\* (deferred wg.Done).
SendStatusFailure(i) ==
    /\ proc = "running"
    /\ task[i] = "sendstatus"
    /\ held = <<>>
    /\ \E size \in StatSizes(i) :
         held' = <<CopyFailure(i, "status", size)>>
    /\ task' = [task EXCEPT ![i] = "done"]
    /\ wg' = wg - 1
    /\ UNCHANGED uploadVars
    /\ UNCHANGED rerunVars
    /\ UNCHANGED clientVars
    /\ UNCHANGED copies
    /\ UNCHANGED timeVars
    /\ UNCHANGED <<pc, req, HdfsClient, proc, fileInfos, listed, idx,
                   totalBytesWritten, copyFailures, reader, inflight,
                   sinkCalls, subtracted, resp, response>>

\* A nil pointer is dereferenced: the goroutine panics, its deferred
\* wg.Done() runs and, nothing recovering, the runtime ends the process.
NilDereference(i) ==
    /\ proc = "running"
    /\ task[i] = "nilderef"
    /\ task' = [task EXCEPT ![i] = "panicked"]
    /\ wg' = wg - 1
    /\ proc' = "panicked"
    /\ UNCHANGED uploadVars
    /\ UNCHANGED rerunVars
    /\ UNCHANGED clientVars
    /\ UNCHANGED copies
    /\ UNCHANGED timeVars
    /\ UNCHANGED <<pc, req, HdfsClient, fileInfos, listed, idx,
                   totalBytesWritten, copyFailures, held, reader, inflight,
                   sinkCalls, subtracted, resp, response>>

sendToUpload(i) ==
    \/ NewRequest(i)
    \/ SendRequestError(i)
    \/ DoStart(i)
    \/ DoReturn(i)
    \/ SendNetworkError(i)
    \/ SendStatusFailure(i)
    \/ NilDereference(i)

handleCopy ==
    \/ Validate
    \/ GetHdfsClient
    \/ ReadDir
    \/ RangeStep
    \/ RangeEnd
    \/ SendOpenFailure
    \/ Wait
    \/ Subtract
    \/ BuildCounts
    \/ BuildFailures
    \/ Respond

Next ==
    \/ handleCopy
    \/ CollectorAppend
    \/ \E i \in Entries : sendToUpload(i)

Spec == Init /\ [][Next]_vars

\* The client repeats a /copy request that returned its summary: the same
\* arguments, the source unchanged, the sink behaving as before.  The
\* handler's variables are those of a new call; the destination and the
\* global client stay.  Of the first summary the fields other than the
\* timing fields are kept, and time is counted anew from the repetition.
Rerun ==
    /\ proc = "running"
    /\ run = 1
    /\ pc = "done"
    /\ response.body = "summary"
    /\ \A k \in 1..Len(held \o copyFailures) :
         (held \o copyFailures)[k].size = Size((held \o copyFailures)[k].path)
    /\ run' = 2
    /\ first' = [resp |-> [resp EXCEPT !.Throughput = <<0, 0>>,
                                       !.ElapsedSecs = 0],
                 status |-> response.status,
                 fileInfos |-> fileInfos,
                 rejected |-> {f.path : f \in
                                 {g \in {(held \o copyFailures)[k] :
                                           k \in 1..Len(held \o copyFailures)} :
                                    g.reason = "status"}},
                 sinkFiles |-> sinkFiles]
    /\ pc' = "idle"
    /\ fileInfos' = <<>>
    /\ listed' = "no"
    /\ idx' = 1
    /\ totalBytesWritten' = 0
    /\ copyFailures' = <<>>
    /\ held' = <<>>
    /\ wg' = 0
    /\ task' = [i \in Entries |-> "none"]
    /\ reader' = [i \in Entries |-> "none"]
    /\ inflight' = {}
    /\ sinkCalls' = [i \in Entries |-> <<>>]
    /\ subtracted' = <<>>
    /\ resp' = NoSummary
    /\ response' = NoResponse
    /\ now' = 0
    /\ start' = 0
    /\ listAt' = 0
    /\ UNCHANGED <<req, HdfsClient, proc, sinkFiles>>
    /\ UNCHANGED uploadVars
    /\ UNCHANGED clientVars
    /\ UNCHANGED copies

NextRerun == Next \/ Rerun

\* A /copy request and its repetition.
SpecRerun == Init /\ [][NextRerun]_vars

\* The Go scheduler lets every goroutine that can run take its next step:
\* the handler, the collector and each task; a call to the storage client
\* or to the sink that was made returns.
FairSpec ==
    /\ Spec
    /\ WF_vars(handleCopy)
    /\ WF_vars(CollectorAppend)
    /\ \A i \in Entries : WF_vars(sendToUpload(i))

----------------------------------------------------------------------------
(* handleUpload and WriteHDFS: the /upload endpoint, the Ingress Sink *)

UploadParamsMissing_OnlyTo(r) == r.to = ""

\* if to == "" || fileName == ""
UploadParamsMissing(r) == r.to = "" \/ r.fileName = ""

\* Query parameters are read and validated; a missing one answers 400.
UploadValidate ==
    /\ proc = "running"
    /\ upPc = "idle"
    /\ \E t \in Dirs, f \in Names, b \in Bodies :
         LET r == [to |-> t, fileName |-> f, body |-> b] IN
         /\ upReq' = r
         /\ upOld' = hdfsFiles[<<t, f>>]
         /\ IF UploadParamsMissing(r)
              THEN /\ upResponse' = [NoUploadResponse EXCEPT !.status = 400]
                   /\ upPc' = "done"
              ELSE /\ upResponse' = NoUploadResponse
                   /\ upPc' = "getclient"
    /\ written' = 0
    /\ UNCHANGED <<hdfsDirs, hdfsFiles, HdfsClient, proc>>
    /\ UNCHANGED copyVars
    /\ UNCHANGED rerunVars
    /\ UNCHANGED clientVars
    /\ UNCHANGED copies
    /\ UNCHANGED timeVars

\* WriteHDFS: client := GetHdfsClient()
WriteHDFSGetClient ==
    /\ proc = "running"
    /\ upPc = "getclient"
    /\ IF HdfsClient = "nil"
         THEN \E ok \in BOOLEAN :
                IF ok THEN /\ HdfsClient' = "client"
                           /\ proc' = proc
                           /\ upPc' = "mkdir"
                      ELSE /\ HdfsClient' = HdfsClient
                           /\ proc' = "fatal"
                           /\ upPc' = upPc
         ELSE /\ upPc' = "mkdir"
              /\ UNCHANGED <<HdfsClient, proc>>
    /\ UNCHANGED <<upReq, upOld, hdfsDirs, hdfsFiles, written, upResponse>>
    /\ UNCHANGED copyVars
    /\ UNCHANGED rerunVars
    /\ UNCHANGED clientVars
    /\ UNCHANGED copies
    /\ UNCHANGED timeVars

\* client.MkdirAll(to, 0755); its error is dropped.
MkdirAll ==
    /\ proc = "running"
    /\ upPc = "mkdir"
    /\ \E ok \in BOOLEAN :
         hdfsDirs' = IF ok THEN hdfsDirs \cup {upReq.to} ELSE hdfsDirs
    /\ upPc' = "remove"
    /\ UNCHANGED <<upReq, upOld, hdfsFiles, written, upResponse, HdfsClient, proc>>
    /\ UNCHANGED copyVars
    /\ UNCHANGED rerunVars
    /\ UNCHANGED clientVars
    /\ UNCHANGED copies
    /\ UNCHANGED timeVars

\* client.Remove(path); its error (no such file, or any other) is dropped.
Remove ==
    /\ proc = "running"
    /\ upPc = "remove"
    /\ LET path == Join(upReq.to, upReq.fileName) IN
       \E ok \in BOOLEAN :
         hdfsFiles' = IF ok THEN [hdfsFiles EXCEPT ![path] = NoFile]
                            ELSE hdfsFiles
    /\ upPc' = "create"
    /\ UNCHANGED <<upReq, upOld, hdfsDirs, written, upResponse, HdfsClient, proc>>
    /\ UNCHANGED copyVars
    /\ UNCHANGED rerunVars
    /\ UNCHANGED clientVars
    /\ UNCHANGED copies
    /\ UNCHANGED timeVars

Create_Append ==
    /\ proc = "running"
    /\ upPc = "create"
    /\ LET path == Join(upReq.to, upReq.fileName) IN
       \/ /\ upReq.to \in hdfsDirs
          /\ hdfsFiles' = [hdfsFiles EXCEPT ![path].exists = TRUE]
          /\ upPc' = "copy"
          /\ upResponse' = upResponse
       \/ /\ hdfsFiles' = hdfsFiles
          /\ upPc' = "done"
          /\ upResponse' = [NoUploadResponse EXCEPT !.status = 500]
    /\ UNCHANGED <<upReq, upOld, hdfsDirs, written, HdfsClient, proc>>
    /\ UNCHANGED copyVars
    /\ UNCHANGED rerunVars
    /\ UNCHANGED clientVars
    /\ UNCHANGED copies
    /\ UNCHANGED timeVars

\* file, err := client.Create(path): a new empty file; it fails when the
\* file exists or the directory is missing, and may fail otherwise.  An
\* error answers 500.
Create ==
    /\ proc = "running"
    /\ upPc = "create"
    /\ LET path == Join(upReq.to, upReq.fileName) IN
       \/ /\ upReq.to \in hdfsDirs
          /\ ~hdfsFiles[path].exists
          /\ hdfsFiles' = [hdfsFiles EXCEPT ![path] =
                              [exists |-> TRUE, data |-> <<>>]]
          /\ upPc' = "copy"
          /\ upResponse' = upResponse
       \/ /\ hdfsFiles' = hdfsFiles
          /\ upPc' = "done"
          /\ upResponse' = [NoUploadResponse EXCEPT !.status = 500]
    /\ UNCHANGED <<upReq, upOld, hdfsDirs, written, HdfsClient, proc>>
    /\ UNCHANGED copyVars
    /\ UNCHANGED rerunVars
    /\ UNCHANGED clientVars
    /\ UNCHANGED copies
    /\ UNCHANGED timeVars

\* written, err := io.Copy(file, data), one byte of the body at a time;
\* a read or write error answers 500 and leaves what was written so far.
CopyByte ==
    /\ proc = "running"
    /\ upPc = "copy"
    /\ written < Len(upReq.body)
    /\ LET path == Join(upReq.to, upReq.fileName) IN
       \/ /\ hdfsFiles' = [hdfsFiles EXCEPT ![path].data =
                              Append(@, upReq.body[written + 1])]
          /\ written' = written + 1
          /\ UNCHANGED <<upPc, upResponse>>
       \/ /\ upPc' = "done"
          /\ upResponse' = [NoUploadResponse EXCEPT !.status = 500]
          /\ UNCHANGED <<hdfsFiles, written>>
    /\ UNCHANGED <<upReq, upOld, hdfsDirs, HdfsClient, proc>>
    /\ UNCHANGED copyVars
    /\ UNCHANGED rerunVars
    /\ UNCHANGED clientVars
    /\ UNCHANGED copies
    /\ UNCHANGED timeVars

\* io.Copy reached the end of the body: WriteHDFS returns
\* UploadResponse{path, written} and handleUpload writes it (status 200).
CopyEnd ==
    /\ proc = "running"
    /\ upPc = "copy"
    /\ written = Len(upReq.body)
    /\ upResponse' = [status |-> 200,
                      path |-> Join(upReq.to, upReq.fileName),
                      written |-> written]
    /\ upPc' = "done"
    /\ UNCHANGED <<upReq, upOld, hdfsDirs, hdfsFiles, written, HdfsClient, proc>>
    /\ UNCHANGED copyVars
    /\ UNCHANGED rerunVars
    /\ UNCHANGED clientVars
    /\ UNCHANGED copies
    /\ UNCHANGED timeVars

\* The server takes the next /upload request.
UploadNext ==
    /\ proc = "running"
    /\ upPc = "done"
    /\ upPc' = "idle"
    /\ UNCHANGED <<upReq, upOld, hdfsDirs, hdfsFiles, written, upResponse,
                   HdfsClient, proc>>
    /\ UNCHANGED copyVars
    /\ UNCHANGED rerunVars
    /\ UNCHANGED clientVars
    /\ UNCHANGED copies
    /\ UNCHANGED timeVars

WriteHDFS ==
    \/ WriteHDFSGetClient
    \/ MkdirAll
    \/ Remove
    \/ Create
    \/ CopyByte
    \/ CopyEnd

handleUpload ==
    \/ UploadValidate
    \/ WriteHDFS
    \/ UploadNext

NextUpload == handleUpload

\* The /upload endpoint alone, serving one request after the other.
SpecUpload == Init /\ [][NextUpload]_vars

----------------------------------------------------------------------------
(* Vocabulary of the properties *)

\* The non-directory entries of the listing.
NonDirs == {i \in 1..Len(fileInfos) : ~fileInfos[i]}

RECURSIVE SumOver(_)
SumOver(S) ==
    IF S = {} THEN 0
    ELSE LET i == CHOOSE x \in S : TRUE IN Size(i) + SumOver(S \ {i})

\* The sizes recorded in a list of failures, added up.
RECURSIVE TotalSize(_)
TotalSize(fs) ==
    IF Len(fs) = 0 THEN 0
    ELSE TotalSize(SubSeq(fs, 1, Len(fs) - 1)) + fs[Len(fs)].size

\* The paths named by a list of failures.
PathsOf(fs) == {fs[k].path : k \in 1..Len(fs)}

\* The failures that tasks or the handler have handed to the collector.
Reported == held \o copyFailures

ReportedWith(reason) ==
    {Reported[k].path : k \in {n \in 1..Len(Reported) : Reported[n].reason = reason}}

\* The response carries the CopyResponse summary.
SummaryReturned == response.body = "summary"

\* Any capacity smaller than the number of files of the largest listing.
Capacity == MaxEntries - 1

----------------------------------------------------------------------------
(* GetHdfsClient called by several requests at once *)

\* The client the n-th run of the constructor returns.
ClientName(n) == IF n = 1 THEN "client" ELSE "client" \o ToString(n)

\* if HdfsClient == nil
ClientCheck(g) ==
    /\ proc = "running"
    /\ getter[g].pc = "start"
    /\ getter' = [getter EXCEPT ![g].pc =
                     IF HdfsClient = "nil" THEN "new" ELSE "return"]
    /\ UNCHANGED <<HdfsClient, proc, constructed>>
    /\ UNCHANGED <<copyVars, uploadVars, rerunVars>>
    /\ UNCHANGED copies
    /\ UNCHANGED timeVars

\* client, err := hdfs.New(namenode) or hdfs.NewClient(opts); an error
\* ends the process (log.Fatalf).
ClientNew(g) ==
    /\ proc = "running"
    /\ getter[g].pc = "new"
    /\ constructed' = constructed + 1
    /\ \E ok \in BOOLEAN :
         IF ok
           THEN /\ getter' = [getter EXCEPT
                                ![g].pc = "assign",
                                ![g].client = ClientName(constructed + 1)]
                /\ proc' = proc
           ELSE /\ proc' = "fatal"
                /\ getter' = getter
    /\ UNCHANGED HdfsClient
    /\ UNCHANGED <<copyVars, uploadVars, rerunVars>>
    /\ UNCHANGED copies
    /\ UNCHANGED timeVars

\* HdfsClient = client
ClientAssign(g) ==
    /\ proc = "running"
    /\ getter[g].pc = "assign"
    /\ HdfsClient' = getter[g].client
    /\ getter' = [getter EXCEPT ![g].pc = "return"]
    /\ UNCHANGED <<proc, constructed>>
    /\ UNCHANGED <<copyVars, uploadVars, rerunVars>>
    /\ UNCHANGED copies
    /\ UNCHANGED timeVars

\* return HdfsClient: the global is read again.
ClientReturn(g) ==
    /\ proc = "running"
    /\ getter[g].pc = "return"
    /\ getter' = [getter EXCEPT ![g].pc = "done", ![g].ret = HdfsClient]
    /\ UNCHANGED <<HdfsClient, proc, constructed>>
    /\ UNCHANGED <<copyVars, uploadVars, rerunVars>>
    /\ UNCHANGED copies
    /\ UNCHANGED timeVars

NextClient ==
    \E g \in Requests :
        \/ ClientCheck(g)
        \/ ClientNew(g)
        \/ ClientAssign(g)
        \/ ClientReturn(g)

\* Requests that reach GetHdfsClient at the same time.
SpecClient == Init /\ [][NextClient]_vars

----------------------------------------------------------------------------
(* Two /copy requests at the same time.  Each call of handleCopy has its  *)
(* own totalBytesWritten, copyFailuresCh, wg and copyFailures; a task is  *)
(* given the wait group and the channel of the call that starts it.       *)

otherVars == <<pc, req, HdfsClient, fileInfos, listed, idx,
               totalBytesWritten, copyFailures, held, wg, task, reader,
               inflight, sinkCalls, subtracted, resp, response, uploadVars,
               rerunVars, clientVars, timeVars>>

\* fileInfos, err := client.ReadDir(from): a listing of n files, or an
\* error, after which the handler returns.  The locals are declared and
\* the collector is started.
TwoReadDir(r) ==
    /\ proc = "running"
    /\ copies[r].pc = "idle"
    /\ \/ copies' = [copies EXCEPT ![r].pc = "failed"]
       \/ \E n \in 0..MaxFilesEach :
            copies' = [copies EXCEPT ![r].pc = "loop", ![r].n = n]
    /\ UNCHANGED <<proc, otherVars>>

TaskRefs_Shared(r) == [wg |-> 1, ch |-> 1]

\* go sendToUpload(reader, targetURL, args, &wg, copyFailuresCh): the
\* wait group and the channel handed to a task of request r.
TaskRefs(r) == [wg |-> r, ch |-> r]

\* One iteration of the range loop: the size is added, the file is
\* opened, wg.Add(1) and the task is started; after a failed open the
\* handler goes on to send the failure.
TwoRangeStep(r) ==
    /\ proc = "running"
    /\ copies[r].pc = "loop"
    /\ copies[r].idx <= copies[r].n
    /\ LET i == copies[r].idx IN
       \E opened \in BOOLEAN :
         IF opened
           THEN copies' = [copies EXCEPT
                             ![r].total = @ + SizeOf(r, i),
                             ![r].wg = @ + 1,
                             ![r].task[i] = [pc |-> "do",
                                             wg |-> TaskRefs(r).wg,
                                             ch |-> TaskRefs(r).ch],
                             ![r].idx = i + 1]
           ELSE copies' = [copies EXCEPT
                             ![r].total = @ + SizeOf(r, i),
                             ![r].pc = "sendopen"]
    /\ UNCHANGED <<proc, otherVars>>

\* The failure record of file i of request r with the given size.
TwoFailure(r, i, size) == [path |-> <<r, i>>, size |-> size]

\* copyFailuresCh <- CopyFailure{...}; return
TwoSendOpenFailure(r) ==
    /\ proc = "running"
    /\ copies[r].pc = "sendopen"
    /\ copies[r].held = <<>>
    /\ copies' = [copies EXCEPT
                     ![r].held = <<TwoFailure(r, copies[r].idx,
                                              SizeOf(r, copies[r].idx))>>,
                     ![r].pc = "returned"]
    /\ UNCHANGED <<proc, otherVars>>

\* wg.Wait() returns when the counter of this call's wait group is zero.
TwoWait(r) ==
    /\ proc = "running"
    /\ copies[r].pc = "loop"
    /\ copies[r].idx > copies[r].n
    /\ copies[r].wg = 0
    /\ copies' = [copies EXCEPT ![r].pc = "subtract"]
    /\ UNCHANGED <<proc, otherVars>>

\* for _, f := range copyFailures { totalBytesWritten -= f.Size }
TwoSubtract(r) ==
    /\ proc = "running"
    /\ copies[r].pc = "subtract"
    /\ copies' = [copies EXCEPT
                     ![r].subtracted = copies[r].failures,
                     ![r].total = @ - SumSizes(copies[r].failures),
                     ![r].pc = "build"]
    /\ UNCHANGED <<proc, otherVars>>

\* The counts of the CopyResponse literal.
TwoBuildCounts(r) ==
    /\ proc = "running"
    /\ copies[r].pc = "build"
    /\ copies' = [copies EXCEPT
                     ![r].resp.Written = copies[r].total,
                     ![r].resp.FilesRequested = copies[r].n,
                     ![r].resp.FilesCopied =
                         copies[r].n - Len(copies[r].failures),
                     ![r].pc = "buildlist"]
    /\ UNCHANGED <<proc, otherVars>>

\* The field CopyFailures of the literal; the summary is written and the
\* handler returns.
TwoRespond(r) ==
    /\ proc = "running"
    /\ copies[r].pc = "buildlist"
    /\ copies' = [copies EXCEPT
                     ![r].resp.CopyFailures = copies[r].failures,
                     ![r].pc = "done"]
    /\ UNCHANGED <<proc, otherVars>>

\* The collector of request r appends the failure it received.
TwoCollectorAppend(r) ==
    /\ proc = "running"
    /\ copies[r].held # <<>>
    /\ copies' = [copies EXCEPT
                     ![r].failures = Append(@, copies[r].held[1]),
                     ![r].held = <<>>]
    /\ UNCHANGED <<proc, otherVars>>

\* sendToUpload up to the answer of the sink: with status 200 the task
\* returns (deferred wg.Done on the wait group it was given); with
\* another status it goes on to send a failure and return; after an
\* error of http.NewRequest or httpClient.Do it goes on to send a failure
\* and to dereference nil.
TwoDo(r, i) ==
    /\ proc = "running"
    /\ copies[r].task[i].pc = "do"
    /\ \E outcome \in {"ok", "status", "error"} :
         CASE outcome = "ok" ->
                copies' = [copies EXCEPT
                             ![r].task[i].pc = "done",
                             ![copies[r].task[i].wg].wg = @ - 1]
           [] outcome = "status" ->
                copies' = [copies EXCEPT ![r].task[i].pc = "sendstatus"]
           [] outcome = "error" ->
                copies' = [copies EXCEPT ![r].task[i].pc = "senderror"]
    /\ UNCHANGED <<proc, otherVars>>

\* reader.Stat().Size() of file i of request r.
TwoStatSizes(r, i) ==
    IF i > MaxChanged THEN {SizeOf(r, i)}
    ELSE {SizeOf(r, i), SizeOf(r, i) + Pow2(2 * MaxFilesEach)}

\* ch <- CopyFailure{...} on the channel the task was given, then the
\* task returns (deferred wg.Done).
TwoSendStatusFailure(r, i) ==
    /\ proc = "running"
    /\ copies[r].task[i].pc = "sendstatus"
    /\ LET t == copies[r].task[i] IN
       /\ copies[t.ch].held = <<>>
       /\ \E size \in TwoStatSizes(r, i) :
            copies' = [copies EXCEPT
                         ![t.ch].held = <<TwoFailure(r, i, size)>>,
                         ![r].task[i].pc = "done",
                         ![t.wg].wg = @ - 1]
    /\ UNCHANGED <<proc, otherVars>>

\* ch <- CopyFailure{...} after an error; the code does not return.
TwoSendError(r, i) ==
    /\ proc = "running"
    /\ copies[r].task[i].pc = "senderror"
    /\ LET t == copies[r].task[i] IN
       /\ copies[t.ch].held = <<>>
       /\ \E size \in TwoStatSizes(r, i) :
            copies' = [copies EXCEPT
                         ![t.ch].held = <<TwoFailure(r, i, size)>>,
                         ![r].task[i].pc = "nilderef"]
    /\ UNCHANGED <<proc, otherVars>>

\* The nil dereference: the deferred wg.Done() runs and the process ends.
TwoNilDereference(r, i) ==
    /\ proc = "running"
    /\ copies[r].task[i].pc = "nilderef"
    /\ copies' = [copies EXCEPT
                     ![r].task[i].pc = "panicked",
                     ![copies[r].task[i].wg].wg = @ - 1]
    /\ proc' = "panicked"
    /\ UNCHANGED otherVars

NextTwo ==
    \E r \in TwoRequests :
        \/ TwoReadDir(r)
        \/ TwoRangeStep(r)
        \/ TwoSendOpenFailure(r)
        \/ TwoWait(r)
        \/ TwoSubtract(r)
        \/ TwoBuildCounts(r)
        \/ TwoRespond(r)
        \/ TwoCollectorAppend(r)
        \/ \E i \in FilesEach :
              \/ TwoDo(r, i)
              \/ TwoSendStatusFailure(r, i)
              \/ TwoSendError(r, i)
              \/ TwoNilDereference(r, i)

\* Two /copy requests in one process.
SpecTwo == Init /\ [][NextTwo]_vars

----------------------------------------------------------------------------
(* Properties *)

\* C1: every /copy run that returns a summary has filesRequested equal to
\* the number N of non-directory entries of the listing, and
\* filesCopied + len(copyFailures) equal to filesRequested.
C1_CountsMatchListing ==
    SummaryReturned =>
        /\ resp.FilesRequested = Cardinality(NonDirs)
        /\ resp.FilesCopied + Len(resp.CopyFailures) = resp.FilesRequested

\* C2: in the returned summary, written is the sum of the listed sizes of
\* the non-directory entries whose path is not in copyFailures.
C2_WrittenExcludesFailures ==
    SummaryReturned =>
        resp.Written = SumOver(NonDirs \ PathsOf(resp.CopyFailures))

\* C3: at no instant are more than Capacity transfer tasks in flight to
\* the Ingress Sink.
C3_AtMostCapacityInFlight == Cardinality(inflight) <= Capacity

\* C4: a summary with at least one failure is answered with status 500,
\* and status 200 is answered only when copyFailures is empty.
C4_FailureAnswers500 ==
    /\ (SummaryReturned /\ resp.CopyFailures # <<>>) => response.status = 500
    /\ (SummaryReturned /\ response.status = 200) => resp.CopyFailures = <<>>

\* C5: when opening the source stream of one file fails, the request still
\* launches a task for every other non-directory entry and returns the
\* summary.
C5_OpenFailureIsLocal ==
    (pc = "done" /\ ReportedWith("open") # {}) =>
        /\ SummaryReturned
        /\ \A i \in NonDirs \ ReportedWith("open") : task[i] # "none"

\* C6: a task whose request could not be built or sent records its failure
\* and finishes normally: it never uses the missing request or response
\* and the process does not crash.
C6_NetworkFailureFinishesNormally ==
    /\ proc # "panicked"
    /\ \A i \in Entries : task[i] \notin {"nilderef", "panicked"}

\* C7: in the returned summary, a file the Ingress Sink answered with a
\* non-success status has exactly one entry in copyFailures, with its path
\* and size, is not counted in filesCopied and its bytes are not in
\* written.
C7_RejectedFileIsOneFailure ==
    SummaryReturned =>
        \A i \in ReportedWith("status") :
            /\ Cardinality({k \in 1..Len(resp.CopyFailures) :
                              resp.CopyFailures[k].path = i}) = 1
            /\ \A k \in 1..Len(resp.CopyFailures) :
                 resp.CopyFailures[k].path = i =>
                     resp.CopyFailures[k].size = Size(i)
            /\ resp.FilesCopied <= Len(fileInfos) - 1
            /\ resp.Written <= SumOver(NonDirs \ {i})

\* C8: a request with `from` or `to` missing is answered 400 and has no
\* side effect: the client is not created, the directory is not listed,
\* no stream is opened, no task is launched, no call to the sink is made.
C8_MissingParamsNoSideEffects ==
    (pc # "idle" /\ (~req.from \/ ~req.to)) =>
        /\ pc = "done"
        /\ response = [status |-> 400, body |-> "error"]
        /\ HdfsClient = "nil"
        /\ listed = "no"
        /\ \A i \in Entries : reader[i] = "none" /\ task[i] = "none"
        /\ wg = 0
        /\ \A i \in Entries : sinkCalls[i] = <<>>
        /\ inflight = {}
        /\ Reported = <<>>

\* A request with `from` present and `to` missing was answered.
C8_Witness ==
    /\ pc = "done"
    /\ req.from
    /\ ~req.to
    /\ response.status = 400

\* C9: a request with targetURL missing is rejected with 400 before the
\* directory is listed, and no task is launched.
C9_TargetURLRequired ==
    (pc # "idle" /\ ~req.targetURL) =>
        /\ pc = "done"
        /\ response.status = 400
        /\ listed = "no"
        /\ \A i \in Entries : task[i] = "none"

\* C10: when listing the source directory fails, the request is answered
\* 500 with an error text and no summary, no task is launched and no call
\* to the sink is made.
C10_ListingFailureIsFatal ==
    listed = "err" =>
        /\ pc = "done"
        /\ response = [status |-> 500, body |-> "error"]
        /\ resp = NoSummary
        /\ \A i \in Entries : reader[i] = "none" /\ task[i] = "none"
        /\ wg = 0
        /\ \A i \in Entries : sinkCalls[i] = <<>>
        /\ inflight = {}

\* The listing of a valid request failed and the request was answered.
C10_Witness ==
    /\ listed = "err"
    /\ req.from
    /\ req.to
    /\ response.status = 500

\* C11: while the /upload request at hand has `to` or `fileName` missing,
\* no step creates a directory or removes, creates or writes a file, and
\* the request is answered 400.
C11_InvalidUploadLeavesStorage ==
    [][(upReq'.to = "" \/ upReq'.fileName = "") =>
           /\ UNCHANGED <<hdfsDirs, hdfsFiles>>
           /\ upPc' = "done" => upResponse'.status = 400]_vars

\* An /upload with `fileName` missing was answered while the destination
\* holds a file.
C11_Witness ==
    /\ upPc = "done"
    /\ upReq.to # ""
    /\ upReq.fileName = ""
    /\ upResponse.status = 400
    /\ \E p \in Paths : hdfsFiles[p].exists /\ hdfsFiles[p].data # <<>>

\* C12: an /upload answered 200 carries path = to joined with fileName and
\* written = the number of bytes of the request body, and the file stored
\* at that path holds exactly the request body.
C12_UploadStoresBody ==
    (upPc = "done" /\ upResponse.status = 200) =>
        /\ upResponse.path = <<upReq.to, upReq.fileName>>
        /\ upResponse.written = Len(upReq.body)
        /\ hdfsFiles[<<upReq.to, upReq.fileName>>] =
               [exists |-> TRUE, data |-> upReq.body]

\* An /upload of a body of the greatest length was answered 200.
C12_Witness ==
    /\ upPc = "done"
    /\ upResponse.status = 200
    /\ Len(upReq.body) = MaxBody

\* The files whose transfer has produced Success: the task returned and
\* reported no failure.
Succeeded == {i \in NonDirs : task[i] = "done" /\ i \notin PathsOf(Reported)}

\* How often path i occurs in a list of failures.
Occurrences(fs, i) == Cardinality({k \in 1..Len(fs) : fs[k].path = i})

\* C13: when the listing consists of N files, every one was accepted by
\* the Ingress Sink and the request is over, the answer is 200 with a
\* summary that has filesRequested = N, filesCopied = N, copyFailures = []
\* and written = the sum of the N sizes.
C13_AllAcceptedSummary ==
    (/\ pc = "done"
     /\ listed = "ok"
     /\ \A i \in 1..Len(fileInfos) : ~fileInfos[i] /\ task[i] = "done"
     /\ Reported = <<>>) =>
        /\ response = [status |-> 200, body |-> "summary"]
        /\ resp.FilesRequested = Len(fileInfos)
        /\ resp.FilesCopied = Len(fileInfos)
        /\ resp.CopyFailures = <<>>
        /\ resp.Written = SumOver(1..Len(fileInfos))

\* A listing of MaxEntries files was copied without any failure.
C13_Witness ==
    /\ pc = "done"
    /\ Len(fileInfos) = MaxEntries
    /\ \A i \in 1..Len(fileInfos) : ~fileInfos[i] /\ task[i] = "done"
    /\ Reported = <<>>
    /\ SummaryReturned

\* C15: every request that passed validation and whose listing succeeded
\* has, once the handler is over, produced its summary, and the failure
\* list was not changed after the summary was built.
C15_ExactlyOneSummary ==
    (pc = "done" /\ listed = "ok") =>
        /\ SummaryReturned
        /\ copyFailures = resp.CopyFailures

\* C16: each failure a task or the handler reported appears exactly once
\* in the copyFailures list the handler reads for the subtraction and for
\* the summary.
C16_NoLostFailure ==
    /\ pc \in {"build", "buildlist", "respond"} \/ SummaryReturned =>
         \A i \in PathsOf(Reported) : Occurrences(subtracted, i) = 1
    /\ pc = "respond" \/ SummaryReturned =>
         \A i \in PathsOf(Reported) : Occurrences(resp.CopyFailures, i) = 1

\* C17: at every instant the running total holds only bytes of files whose
\* transfer has already produced Success.
C17_TotalOnlySuccessBytes == totalBytesWritten <= SumOver(Succeeded)

\* C17 as amended: the running total holds the size of every
\* non-directory entry the loop has reached, whatever becomes of its
\* transfer; the sizes of failed files leave the total only in the
\* subtraction after the join, and only for the failures that loop found
\* in copyFailures.
C17_TotalIsAddThenSubtract ==
    /\ pc \in {"loop", "wait", "subtract"} =>
         totalBytesWritten = SumOver({i \in NonDirs : i < idx})
    /\ pc = "sendopen" =>
         totalBytesWritten = SumOver({i \in NonDirs : i <= idx})
    /\ pc \in {"build", "buildlist", "respond"} \/ SummaryReturned =>
         totalBytesWritten = SumOver(NonDirs) - TotalSize(subtracted)

\* The subtraction took two failed files out of the total.
C17_Witness ==
    /\ pc = "build"
    /\ Len(subtracted) = 2
    /\ totalBytesWritten < SumOver(NonDirs)

\* C18: the handler reads the totals and the failure list, builds the
\* summary and returns only when every launched task has finished and its
\* outcome has been appended by the collector.
C18_SummaryAfterJoinAndFold ==
    pc \in {"subtract", "build", "buildlist", "respond", "done"} =>
        /\ \A i \in Entries : task[i] \in {"none", "done"}
        /\ \A k \in 1..Len(held) : held[k].reason = "open"

\* C20: each non-directory entry whose source stream opened and whose
\* task is past the point of calling has had exactly one outbound call,
\* carrying its file name and the destination directory; entries that are
\* directories have no task and no call.
C20_OneCallPerOpenedFile ==
    \A i \in Entries :
        /\ task[i] \in {"sendreqerr", "nilderef", "panicked", "inflight",
                        "sendstatus", "sendneterr", "done"} =>
               sinkCalls[i] = <<[fileName |-> i, to |-> req.to,
                                 targetURL |-> req.targetURL]>>
        /\ i \notin NonDirs => task[i] = "none" /\ sinkCalls[i] = <<>>

\* C20 as amended: an entry never has more than one outbound call, and a
\* call is made only for a non-directory entry whose stream opened and
\* carries that entry's name and the request's destination directory; an
\* entry whose request was built has had exactly one call once its task
\* is past httpClient.Do, an entry whose request could not be built has
\* none; every file of a run that returned its summary has had exactly
\* one; directory entries have no task and no call.
C20_OneCallPerBuiltRequest ==
    \A i \in Entries :
        /\ Len(sinkCalls[i]) <= 1
        /\ sinkCalls[i] # <<>> =>
             /\ i \in NonDirs
             /\ reader[i] # "none"
             /\ sinkCalls[i][1] = [fileName |-> i, to |-> req.to,
                                   targetURL |-> req.targetURL]
        /\ task[i] \in {"inflight", "sendstatus", "sendneterr", "done"} =>
             Len(sinkCalls[i]) = 1
        /\ task[i] \in {"newreq", "do", "sendreqerr"} => sinkCalls[i] = <<>>
        /\ (SummaryReturned /\ i \in NonDirs) => Len(sinkCalls[i]) = 1
        /\ i \notin NonDirs => task[i] = "none" /\ sinkCalls[i] = <<>>

\* A run over a directory and two files returned its summary.
C20_Witness ==
    /\ SummaryReturned
    /\ Cardinality(NonDirs) = 2
    /\ Len(fileInfos) = 3
    /\ \A i \in NonDirs : Len(sinkCalls[i]) = 1

\* C19: under fair scheduling, every request that passed validation and
\* listing eventually passes the join and emits its summary response.
C19_EveryRequestAnswered == (listed = "ok") ~> SummaryReturned

\* The failures of a summary, as a set.
FailureSet(fs) == {fs[k] : k \in 1..Len(fs)}

\* C14: the second of two /copy runs with the same arguments, the source
\* unchanged and the sink behaving the same leaves the destination as the
\* first run left it and returns a summary equal to the first one in
\* written, filesRequested, filesCopied and copyFailures, with the same
\* status.
C14_RerunSameSummary ==
    (run = 2 /\ SummaryReturned) =>
        /\ sinkFiles = first.sinkFiles
        /\ response.status = first.status
        /\ resp.Written = first.resp.Written
        /\ resp.FilesRequested = first.resp.FilesRequested
        /\ resp.FilesCopied = first.resp.FilesCopied
        /\ FailureSet(resp.CopyFailures) = FailureSet(first.resp.CopyFailures)

\* C21: a source read stream that was opened is closed once the handler
\* has returned, and no stream is closed while the outbound call that
\* streams it is still in progress.
C21_StreamClosedAfterItsCall ==
    \A i \in Entries :
        /\ (pc = "done" /\ reader[i] # "none") => reader[i] = "closed"
        /\ reader[i] = "closed" => i \notin inflight

\* C22: the returned summary is the same for every order of task
\* completions and every interleaving with the collector.  One of these
\* orders has every append of the collector before the handler's reads,
\* and there the summary is the fold of the outcomes: written is the sum
\* of the listed sizes less those of the failed files, filesCopied is the
\* length of the listing less the number of failures, copyFailures holds
\* exactly the failures.  So every order must give that summary.
C22_SummaryIndependentOfOrder ==
    SummaryReturned =>
        /\ resp.Written = SumOver(NonDirs) - SumOver(PathsOf(Reported))
        /\ resp.FilesRequested = Len(fileInfos)
        /\ resp.FilesCopied = Len(fileInfos) - Len(Reported)
        /\ FailureSet(resp.CopyFailures) = FailureSet(Reported)

\* C23: while the range loop has entries left the handler can take its
\* next iteration whatever the earlier tasks are doing, and the source
\* read stream of a file is opened by that file's task: the task exists
\* before its stream is open.
C23_HandlerOnlyLaunches ==
    [][/\ (proc = "running" /\ pc = "loop" /\ idx <= Len(fileInfos)) =>
              ENABLED RangeStep
       /\ \A i \in Entries :
            (reader[i] = "none" /\ reader'[i] = "open") => task[i] # "none"]_vars

\* The failure entries there are: handed to the collector, in the slice,
\* or in the summary.
AllFailures ==
    FailureSet(Reported) \cup FailureSet(subtracted)
        \cup FailureSet(resp.CopyFailures)

\* C24: every entry of copyFailures carries the path of a file of the
\* listing and a size equal to the size the listing reported for it.
C24_FailureSizeIsListedSize ==
    \A f \in AllFailures :
        /\ f.path \in NonDirs
        /\ f.size = Size(f.path)

\* C25: an /upload answered 200 has its destination directory in place,
\* and when a file existed at the destination path on arrival, the file
\* there now holds the body of this upload and nothing else; while the
\* body is being written the file holds the part written so far, with no
\* byte of an older file.
C25_UploadReplacesFile ==
    LET path == <<upReq.to, upReq.fileName>> IN
    /\ upPc = "copy" =>
         hdfsFiles[path] =
             [exists |-> TRUE, data |-> SubSeq(upReq.body, 1, written)]
    /\ (upPc = "done" /\ upResponse.status = 200) => upReq.to \in hdfsDirs
    /\ (upPc = "done" /\ upResponse.status = 200 /\ upOld.exists) =>
         hdfsFiles[path] = [exists |-> TRUE, data |-> upReq.body]

\* An /upload over a longer file with other content was answered 200.
C25_Witness ==
    /\ upPc = "done"
    /\ upResponse.status = 200
    /\ upOld.exists
    /\ Len(upOld.data) > Len(upReq.body)
    /\ upReq.body # <<>>
    /\ upReq.body # SubSeq(upOld.data, 1, Len(upReq.body))

\* C26: the client constructor runs at most once, and all requests that
\* have their client have the same one.
C26_ClientCreatedOnce ==
    /\ constructed <= 1
    /\ \A g, h \in Requests :
         (getter[g].pc = "done" /\ getter[h].pc = "done") =>
             getter[g].ret = getter[h].ret

\* C27: in a returned summary the clock was first read before the
\* directory was listed, elapsedSecs reaches from that reading to the end
\* of the join and is greater than 0, and throughputMbps is
\* written * 8 / elapsedSecs / 1e6 for the written of the summary, the
\* total after the subtraction.
C27_ElapsedAndThroughput ==
    SummaryReturned =>
        /\ start <= listAt
        /\ start + resp.ElapsedSecs >= now
        /\ resp.ElapsedSecs > 0
        /\ resp.Written = totalBytesWritten
        /\ resp.Throughput = <<resp.Written * 8, resp.ElapsedSecs * 1000000>>

\* A summary with a failure taken out of written, after a join that took
\* time.
C27_Witness ==
    /\ SummaryReturned
    /\ resp.Written > 0
    /\ subtracted # <<>>
    /\ resp.ElapsedSecs > 1

\* C28: once the handler has returned, every task goroutine it started
\* has finished and the collector goroutine has ended.
C28_NothingLeftRunning ==
    pc = "done" =>
        /\ \A i \in Entries : task[i] \in {"none", "done"}
        /\ collector \in {"none", "ended"}

\* The tasks of request r that have been started and have not returned.
TwoRunning(r) ==
    {i \in FilesEach :
        copies[r].task[i].pc \in {"do", "sendstatus", "senderror", "nilderef"}}

\* The failures request r has anywhere.
TwoFailures(r) ==
    FailureSet(copies[r].held) \cup FailureSet(copies[r].failures)
        \cup FailureSet(copies[r].subtracted)
        \cup FailureSet(copies[r].resp.CopyFailures)

\* C29: of two /copy requests served at the same time, each has in its
\* failure channel, failure list and summary only failures of its own
\* files, its wait group counts its own running tasks only, and its
\* total is made of its own files' sizes and of what its own subtraction
\* took out.
C29_RequestsAreIsolated ==
    \A r \in TwoRequests :
        /\ \A f \in TwoFailures(r) : f.path[1] = r
        /\ copies[r].wg = Cardinality(TwoRunning(r))
        /\ copies[r].pc \in {"loop", "sendopen", "returned"} =>
             copies[r].total \in
                 {Pow2((r - 1) * MaxFilesEach) * (Pow2(k) - 1) :
                    k \in 0..MaxFilesEach}
        /\ copies[r].pc = "done" =>
             /\ copies[r].resp.FilesRequested = copies[r].n
             /\ copies[r].resp.Written =
                    Pow2((r - 1) * MaxFilesEach) * (Pow2(copies[r].n) - 1)
                        - TotalSize(copies[r].subtracted)

\* One request has returned a summary that lists a failure while a task
\* of the other is sending a failure of its own.
C29_Witness ==
    /\ copies[1].pc = "done"
    /\ copies[1].resp.CopyFailures # <<>>
    /\ copies[2].wg > 0
    /\ \E i \in FilesEach : copies[2].task[i].pc = "sendstatus"

====
